---------------------------- MODULE Spec2Model ----------------------------
(***************************************************************************)
(* ReadGuard: the PreToolUse hook of read-guard.py, which inspects one     *)
(* requested file read and allows it, completes its missing limit, or      *)
(* blocks it.  One run of main() is modelled step by step (pc).  Other     *)
(* runs of the hook are separate processes that share nothing with this    *)
(* one but LOG_FILE, to which they append their own lines at any time.     *)
(***************************************************************************)
EXTENDS Integers, Sequences, FiniteSets, TLC

VARIABLES
    pc,           \* position of the process inside main()
    stdin,        \* the payload handed to this run
    logWritable,  \* environment: can this run append to LOG_FILE
    file_lines,   \* local file_lines of main(): None or Some(n)
    file_bytes,   \* local file_bytes of main(): None or Some(n)
    probed,       \* get_file_line_count / get_file_size were called
    exitCode,     \* None while running, Some(status) once exited
    streams,      \* environment: what descriptors 1 and 2 of the process are
    unbuffered,   \* environment: PYTHONUNBUFFERED is set
    stdout,       \* what the host received on stdout (sequence of texts)
    stderr,       \* what the host received on stderr (sequence of texts)
    log,          \* LOG_FILE: the lines of the audit log
    written       \* the lines this run itself wrote to LOG_FILE

vars == <<pc, stdin, logWritable, streams, unbuffered, file_lines,
          file_bytes, probed, exitCode, stdout, stderr, log, written>>

---------------------------------------------------------------------------
(* Python values as they arrive in the payload: None, an int, a str.       *)
None == <<>>
Some(v) == <<v>>
PyStr(s) == <<"str", s>>
IsNone(o) == o = <<>>
IsInt(o) == Len(o) = 1
IsStr(o) == Len(o) = 2
Val(o) == o[1]
StrOf(o) == o[2]

---------------------------------------------------------------------------
(* Configuration.                                                          *)
MAX_FILE_LINES == 1000
MAX_FILE_BYTES == 50 * 1024
MAX_SINGLE_READ_LINES == 500
MAX_SINGLE_READ_BYTES == 20 * 1024

SKIP_EXTENSIONS ==
    {".png", ".jpg", ".jpeg", ".gif", ".bmp", ".ico", ".pdf",
     ".exe", ".dll", ".so", ".dylib"}

---------------------------------------------------------------------------
(* Bounds of the model.                                                    *)

\* Other runs of the hook append at most this many lines to LOG_FILE.
MaxOtherLines == 2

---------------------------------------------------------------------------
(* Strings.                                                                *)

CharAt(s, i) == SubSeq(s, i, i)

\* True iff sub occurs in s.
Contains(s, sub) ==
    \E i \in 1..(Len(s) - Len(sub) + 1) : SubSeq(s, i, i + Len(sub) - 1) = sub

\* Number of occurrences of the one-character c in s.
Count(s, c) == Cardinality({i \in 1..Len(s) : CharAt(s, i) = c})

\* The lines of a text that ends with a newline (what a reader of the file
\* sees after the text was appended to it).
RECURSIVE SplitLines(_)
SplitLines(text) ==
    IF Len(text) = 0 THEN <<>>
    ELSE LET nl == CHOOSE i \in 1..Len(text) :
                       /\ CharAt(text, i) = "\n"
                       /\ \A j \in 1..(i - 1) : CharAt(text, j) # "\n"
         IN  <<SubSeq(text, 1, nl - 1)>>
             \o SplitLines(SubSeq(text, nl + 1, Len(text)))

\* str.rfind(c) for a one-character c, 1-based; 0 when c does not occur.
RFind(s, c) ==
    LET hits == {i \in 1..Len(s) : CharAt(s, i) = c}
    IN  IF hits = {} THEN 0 ELSE CHOOSE i \in hits : \A j \in hits : j <= i

UpperToLower ==
    [c \in {"A","B","C","D","E","F","G","H","I","J","K","L","M","N","O","P",
            "Q","R","S","T","U","V","W","X","Y","Z"} |->
        CASE c = "A" -> "a" [] c = "B" -> "b" [] c = "C" -> "c" [] c = "D" -> "d"
          [] c = "E" -> "e" [] c = "F" -> "f" [] c = "G" -> "g" [] c = "H" -> "h"
          [] c = "I" -> "i" [] c = "J" -> "j" [] c = "K" -> "k" [] c = "L" -> "l"
          [] c = "M" -> "m" [] c = "N" -> "n" [] c = "O" -> "o" [] c = "P" -> "p"
          [] c = "Q" -> "q" [] c = "R" -> "r" [] c = "S" -> "s" [] c = "T" -> "t"
          [] c = "U" -> "u" [] c = "V" -> "v" [] c = "W" -> "w" [] c = "X" -> "x"
          [] c = "Y" -> "y" [] c = "Z" -> "z"]

\* str.lower() on ASCII text.
RECURSIVE lower(_)
lower(s) ==
    IF Len(s) = 0 THEN ""
    ELSE LET c == CharAt(s, 1)
         IN  (IF c \in DOMAIN UpperToLower THEN UpperToLower[c] ELSE c)
             \o lower(SubSeq(s, 2, Len(s)))

\* os.path.splitext(p)[1] (posixpath: the separator is "/"): the text from
\* the last dot of the last path component on, unless that dot is preceded
\* only by dots within the component; "" when there is no such dot.
\* (ntpath also splits at a backslash; the paths used here hold none.)
splitext_ext(p) ==
    LET sepIndex == RFind(p, "/")
        dotIndex == RFind(p, ".")
    IN  IF dotIndex > sepIndex
           /\ \E k \in (sepIndex + 1)..(dotIndex - 1) : CharAt(p, k) # "."
        THEN SubSeq(p, dotIndex, Len(p))
        ELSE ""

\* Mutant of ext_of: the extension is compared as written, .lower() dropped.
ext_of_case_sensitive(file_path) == splitext_ext(file_path)

\* ext = os.path.splitext(file_path)[1].lower() with all letters lowered.
ext_of(file_path) == lower(splitext_ext(file_path))

\* Python's round-half-to-even of the exact quotient num/den (den > 0).
RoundHalfEven(num, den) ==
    LET q == num \div den
        r == num % den
    IN  IF 2 * r < den THEN q
        ELSE IF 2 * r > den THEN q + 1
        ELSE IF q % 2 = 0 THEN q ELSE q + 1

\* f"{x:.1f}" for x = num/den, x >= 0.
Fixed1(num, den) ==
    LET t == RoundHalfEven(10 * num, den)
    IN  ToString(t \div 10) \o "." \o ToString(t % 10)

format_bytes(size) ==
    IF size >= 1024 * 1024 THEN Fixed1(size, 1024 * 1024) \o "MB"
    ELSE IF size >= 1024 THEN Fixed1(size, 1024) \o "KB"
    ELSE ToString(size) \o "B"

---------------------------------------------------------------------------
(* The environment: payloads on stdin and the files the probes see.        *)

\* What os.path.exists, get_file_line_count and get_file_size answer for
\* each path: line count and byte size are None when the probe fails.
\* The empty path is the default of tool_input.get("file_path", "").
Files ==
    [p \in {"app/small.py", "app/edge.txt", "app/long.log", "app/wide.json",
            "app/huge.csv", "img/logo.PNG", "app/missing.py",
            "app/locked.txt", "app/gone.txt", "app/two\nlines.txt", ""} |->
        CASE p = "app/small.py"   -> [exists |-> TRUE,  lines |-> Some(50),    bytes |-> Some(2048)]
          [] p = "app/edge.txt"   -> [exists |-> TRUE,  lines |-> Some(1000),  bytes |-> Some(51200)]
          [] p = "app/long.log"   -> [exists |-> TRUE,  lines |-> Some(1200),  bytes |-> Some(10240)]
          [] p = "app/wide.json"  -> [exists |-> TRUE,  lines |-> Some(800),   bytes |-> Some(61440)]
          [] p = "app/huge.csv"   -> [exists |-> TRUE,  lines |-> Some(20000), bytes |-> Some(1310720)]
          [] p = "img/logo.PNG"   -> [exists |-> TRUE,  lines |-> Some(1200),  bytes |-> Some(61440)]
          [] p = "app/missing.py" -> [exists |-> FALSE, lines |-> None,        bytes |-> None]
          [] p = "app/locked.txt" -> [exists |-> TRUE,  lines |-> None,        bytes |-> Some(61440)]
          [] p = "app/gone.txt"   -> [exists |-> TRUE,  lines |-> Some(1200),  bytes |-> None]
          [] p = "app/two\nlines.txt"
                                  -> [exists |-> TRUE,  lines |-> Some(1200),  bytes |-> Some(10240)]
          [] p = ""               -> [exists |-> FALSE, lines |-> None,        bytes |-> None]]

ToolNames == {"Read", "Write"}
Offsets == {None, Some(0), Some(10)}
Limits == {None, Some(50), Some(500), Some(600)}

\* A payload that json.load parses to an object of the documented shape:
\* tool_input is an object, file_path a string, offset and limit absent
\* or integers.
TypedPayloads ==
    [kind : {"object"}, tool_name : ToolNames, tool_input : {"dict"},
     file_path : {PyStr(p) : p \in DOMAIN Files \ {""}},
     offset : Offsets, limit : Limits]

\* "{}": every .get falls back to its default.
EmptyObjectPayload ==
    [kind |-> "object", tool_name |-> "", tool_input |-> "dict",
     file_path |-> PyStr(""), offset |-> None, limit |-> None]

\* JSON objects whose fields have other types than the documented ones:
\* "tool_input": null; "file_path": 123; "limit": "600".
IllTypedPayloads ==
    [kind : {"object"}, tool_name : ToolNames, tool_input : {"null"},
     file_path : {None}, offset : {None}, limit : {None}]
    \cup
    [kind : {"object"}, tool_name : {"Read"}, tool_input : {"dict"},
     file_path : {Some(123)}, offset : {None}, limit : {None}]
    \cup
    [kind : {"object"}, tool_name : {"Read"}, tool_input : {"dict"},
     file_path : {PyStr("app/small.py"), PyStr("app/long.log")},
     offset : {None, Some(0)}, limit : {PyStr("600")}]

ObjectPayloads == TypedPayloads \cup {EmptyObjectPayload} \cup IllTypedPayloads

\* "{oops" is not JSON; "[]" is JSON but not an object.
InvalidPayload ==
    [kind |-> "invalid", tool_name |-> "", tool_input |-> "dict",
     file_path |-> PyStr(""), offset |-> None, limit |-> None]
ListPayload ==
    [kind |-> "list", tool_name |-> "", tool_input |-> "dict",
     file_path |-> PyStr(""), offset |-> None, limit |-> None]

\* Descriptor 0 was closed when the process started: sys.stdin is None.
ClosedStdin ==
    [kind |-> "closed", tool_name |-> "", tool_input |-> "dict",
     file_path |-> PyStr(""), offset |-> None, limit |-> None]

Payloads == ObjectPayloads \cup {InvalidPayload, ListPayload, ClosedStdin}

\* The message of the JSONDecodeError json.load raises on "{oops".
JSONDecodeErrorText ==
    "Expecting property name enclosed in double quotes: line 1 column 2 (char 1)"

\* What datetime.now().strftime("%Y-%m-%d %H:%M:%S") returns during the run.
Timestamp == "2025-01-01 12:00:00"

\* What a standard descriptor of the process can be.  "ok": open and
\* writable, the host reads what is written.  "closed": closed when the
\* process started, so that sys.stdout / sys.stderr is None.  "full": open
\* on a device that takes no data (ENOSPC).  "pipe": a pipe whose reader
\* is gone (EPIPE).
StreamStates == {"ok", "closed", "full", "pipe"}
Environments == [out : StreamStates, err : StreamStates]

---------------------------------------------------------------------------
(* get_file_line_count, get_file_size.                                     *)

\* Mutant of get_file_line_count: the except clause returns 0, not None.
get_file_line_count_zero(file_path) ==
    IF IsNone(Files[file_path].lines) THEN Some(0) ELSE Files[file_path].lines

get_file_line_count(file_path) == Files[file_path].lines
get_file_size(file_path) == Files[file_path].bytes
path_exists(file_path) == Files[file_path].exists

---------------------------------------------------------------------------
(* log_stats.                                                              *)

\* log_entry = f"{timestamp} | {status} | lines=... bytes=... | {reason} |
\* {file_path}\n"
log_entry(timestamp, file_path, lines, bytes_size, blocked, reason) ==
    timestamp \o " | " \o (IF blocked THEN "BLOCKED" ELSE "ALLOWED")
    \o " | lines=" \o ToString(lines) \o " bytes=" \o ToString(bytes_size)
    \o " | " \o reason \o " | " \o file_path \o "\n"

\* Mutant of LogAppend: the file is opened with 'w', which truncates it.
LogOverwrite(file, entry) == SplitLines(entry)

\* open(LOG_FILE, 'a') and f.write(log_entry): the lines of the file
\* afterwards.  The entry ends with a newline and so does the file.
LogAppend(file, entry) == file \o SplitLines(entry)

\* Mutant of log_stats: no try/except, so a failed write raises.
log_stats_unguarded(file, file_path, lines, bytes_size, blocked, reason, writable) ==
    LET entry == log_entry(Timestamp, file_path, lines, bytes_size, blocked, reason)
    IN  [raised |-> ~writable,
         file   |-> IF writable THEN LogAppend(file, entry) ELSE file,
         wrote  |-> IF writable THEN SplitLines(entry) ELSE <<>>]

\* log_stats on the log `file`: the log afterwards, the lines this call
\* wrote, and whether an exception left the function.  When LOG_FILE cannot
\* be written, makedirs or open raises inside the try and the except clause
\* swallows it.
log_stats(file, file_path, lines, bytes_size, blocked, reason, writable) ==
    LET entry == log_entry(Timestamp, file_path, lines, bytes_size, blocked, reason)
    IN  [raised |-> FALSE,
         file   |-> IF writable THEN LogAppend(file, entry) ELSE file,
         wrote  |-> IF writable THEN SplitLines(entry) ELSE <<>>]

---------------------------------------------------------------------------
(* The conditions main() branches on.                                      *)

\* tool_name != "Read"
not_read_tool(tool_name) == tool_name # "Read"

\* tool_input.get raises AttributeError when tool_input is not an object.
tool_input_get_raises(tool_input) == tool_input # "dict"

\* os.path.splitext(file_path) raises TypeError when file_path is not a str.
splitext_raises(file_path) == ~IsStr(file_path)

\* ext in SKIP_EXTENSIONS
is_skipped(file_path) == ext_of(file_path) \in SKIP_EXTENSIONS

\* file_lines is None or file_bytes is None
probe_failed(lines, bytes) == IsNone(lines) \/ IsNone(bytes)

exceeds_lines(lines) == lines > MAX_FILE_LINES
exceeds_bytes(bytes) == bytes > MAX_FILE_BYTES

\* offset is None or limit is None
missing_paging(offset, limit) == IsNone(offset) \/ IsNone(limit)

\* limit > MAX_SINGLE_READ_LINES raises TypeError when limit is a str.
limit_compare_raises(limit) == IsStr(limit)

\* limit is not None and limit > MAX_SINGLE_READ_LINES, for an int limit
limit_too_large(limit) == IsInt(limit) /\ Val(limit) > MAX_SINGLE_READ_LINES

\* offset is not None and limit is None
needs_auto_limit(offset, limit) == ~IsNone(offset) /\ IsNone(limit)

---------------------------------------------------------------------------
(* The texts main() builds.                                                *)

\* sep.join(parts)
RECURSIVE Join(_, _)
Join(parts, sep) ==
    IF Len(parts) = 0 THEN ""
    ELSE IF Len(parts) = 1 THEN parts[1]
    ELSE parts[1] \o sep \o Join(Tail(parts), sep)

\* reason_parts of rule 1.
reason_parts(lines, bytes) ==
    (IF exceeds_lines(lines)
     THEN <<ToString(lines) \o " lines (>" \o ToString(MAX_FILE_LINES) \o ")">>
     ELSE <<>>)
    \o
    (IF exceeds_bytes(bytes)
     THEN <<format_bytes(bytes) \o " (>" \o format_bytes(MAX_FILE_BYTES) \o ")">>
     ELSE <<>>)

\* reason = " AND ".join(reason_parts)
rule1_reason(lines, bytes) == Join(reason_parts(lines, bytes), " AND ")

\* error_msg of rule 1.
rule1_error_msg(file_path, reason) ==
    "BLOCKED: File exceeds thresholds: " \o reason \o ".\n"
    \o "You MUST specify both 'offset' and 'limit' parameters.\n\n"
    \o "Recommended approach:\n"
    \o "1. Use Grep to find target line numbers first\n"
    \o "2. Then Read with offset and limit (max "
    \o ToString(MAX_SINGLE_READ_LINES) \o " lines / "
    \o format_bytes(MAX_SINGLE_READ_BYTES) \o ")\n\n"
    \o "Example:\n"
    \o "  Grep: pattern=\"function_name\" path=\"" \o file_path \o "\"\n"
    \o "  Read: file_path=\"" \o file_path \o "\", offset=<line-5>, limit=50"

\* error_msg of rule 2.
rule2_error_msg(limit) ==
    "BLOCKED: Requested limit=" \o ToString(limit) \o " exceeds maximum "
    \o ToString(MAX_SINGLE_READ_LINES) \o " lines.\n"
    \o "Please reduce the limit parameter to "
    \o ToString(MAX_SINGLE_READ_LINES) \o " or less."

\* output of rule 3.
rule3_output(lines, bytes) ==
    [hookSpecificOutput |->
        [hookEventName |-> "PreToolUse",
         permissionDecision |-> "allow",
         permissionDecisionReason |->
             "Auto-added limit=" \o ToString(MAX_SINGLE_READ_LINES)
             \o " (file: " \o ToString(lines) \o " lines, "
             \o format_bytes(bytes) \o ")",
         updatedInput |-> [limit |-> MAX_SINGLE_READ_LINES]]]

\* What the interpreter prints when an exception leaves main().
Traceback(what) == "Traceback (most recent call last): " \o what

\* json.dumps(output) for the output of rule 3: keys in insertion order,
\* separators ", " and ": ".
json_dumps(output) ==
    LET h == output.hookSpecificOutput
    IN  "{\"hookSpecificOutput\": {"
        \o "\"hookEventName\": \"" \o h.hookEventName \o "\", "
        \o "\"permissionDecision\": \"" \o h.permissionDecision \o "\", "
        \o "\"permissionDecisionReason\": \"" \o h.permissionDecisionReason \o "\", "
        \o "\"updatedInput\": {\"limit\": " \o ToString(h.updatedInput.limit)
        \o "}}}"

\* The OSError of a write to a descriptor that takes no data.
OSErrorText(state) ==
    IF state = "pipe" THEN "BrokenPipeError: [Errno 32] Broken pipe"
    ELSE "OSError: [Errno 28] No space left on device"

\* What the interpreter reports on stderr when the flush of stdout fails
\* at exit.
FlushErrorText(state) ==
    "Exception ignored in: <_io.TextIOWrapper name='<stdout>' mode='w' "
    \o "encoding='utf-8'>\n" \o OSErrorText(state)

---------------------------------------------------------------------------
(* How the process ends.                                                   *)

\* sys.exit(status) with nothing printed.
Silent(status) ==
    [exitCode |-> Some(status), stdout |-> <<>>, stderr |-> <<>>]

\* print(item, file=stream); sys.exit(status) in the environment env.
\* print writes to sys.stdout when sys.stderr is None, and does nothing
\* when its target is None.  On a target that takes no data, the flush at
\* exit fails and makes the status 120, or, unbuffered, print raises
\* OSError, which leaves main() and makes it 1; the interpreter reports
\* either on stderr, when that is open and writable.
Emit(status, stream, item, env, unbuf) ==
    LET target == IF stream = "stderr" /\ env.err = "closed"
                  THEN "stdout" ELSE stream
        state  == IF target = "stdout" THEN env.out ELSE env.err
        failed == state \in {"full", "pipe"}
    IN  [exitCode |-> Some(IF ~failed THEN status
                           ELSE IF unbuf THEN 1 ELSE 120),
         stdout   |-> IF target = "stdout" /\ state = "ok"
                      THEN <<item>> ELSE <<>>,
         stderr   |-> IF target = "stderr" /\ state = "ok" THEN <<item>>
                      ELSE IF target = "stdout" /\ failed /\ env.err = "ok"
                      THEN (IF unbuf THEN <<Traceback(OSErrorText(state))>>
                            ELSE <<FlushErrorText(state)>>)
                      ELSE <<>>]

\* An exception leaves main(): the interpreter prints the traceback on
\* sys.stderr, nowhere when that is None, and exits with status 1, or with
\* 120 when the flush of stderr fails at exit.
Uncaught(what, env, unbuf) ==
    [exitCode |-> Some(IF env.err \in {"full", "pipe"} /\ ~unbuf
                       THEN 120 ELSE 1),
     stdout   |-> <<>>,
     stderr   |-> IF env.err = "ok" THEN <<Traceback(what)>> ELSE <<>>]

\* except json.JSONDecodeError as e: the text printed on stderr and the
\* status passed to sys.exit.
invalid_json(e) ==
    [status |-> 1, err |-> "[Hook Error] Invalid JSON: " \o e]

\* The process ends as r says.
Terminate(r) ==
    /\ pc' = "exited"
    /\ exitCode' = r.exitCode
    /\ stdout' = r.stdout
    /\ stderr' = r.stderr

---------------------------------------------------------------------------
(* The call of log_stats in each rule.                                     *)

\* log_stats(file_path, file_lines, file_bytes, blocked, reason) in main()
\* when the log can (writable) or cannot be written, and where main() is
\* afterwards: at `next`, unless an exception left log_stats, which would
\* leave main() too and end the process with status 1.
LogStep(blocked, reason, next, writable) ==
    LET r == log_stats(log, StrOf(stdin.file_path), Val(file_lines),
                       Val(file_bytes), blocked, reason, writable)
        crash == Uncaught("log_stats", streams, unbuffered)
    IN  [pc       |-> IF r.raised THEN "exited" ELSE next,
         log      |-> r.file,
         written  |-> written \o r.wrote,
         exitCode |-> IF r.raised THEN crash.exitCode ELSE exitCode,
         stdout   |-> stdout,
         stderr   |-> IF r.raised THEN crash.stderr ELSE stderr]

Rule1Log(writable) ==
    LogStep(TRUE,
            "missing offset/limit: "
            \o rule1_reason(Val(file_lines), Val(file_bytes)),
            "emit1", writable)

Rule2Log(writable) ==
    LogStep(TRUE, "limit too large: " \o ToString(Val(stdin.limit)),
            "emit2", writable)

Rule3Log(writable) == LogStep(FALSE, "auto-added limit", "emit3", writable)

PassedLog(writable) == LogStep(FALSE, "passed", "exit_passed", writable)

\* main() moves on as r says.
Proceed(r) ==
    /\ pc' = r.pc
    /\ log' = r.log
    /\ written' = r.written
    /\ exitCode' = r.exitCode
    /\ stdout' = r.stdout
    /\ stderr' = r.stderr

---------------------------------------------------------------------------
(* main(), one action per step.                                            *)

\* The process is started on a payload.
Invoke ==
    /\ pc = "idle"
    /\ \E payload \in Payloads, w \in BOOLEAN,
          env \in Environments, unbuf \in BOOLEAN :
        /\ stdin' = payload
        /\ logWritable' = w
        /\ streams' = env
        /\ unbuffered' = unbuf
    /\ pc' = "load"
    /\ UNCHANGED <<file_lines, file_bytes, probed, exitCode, stdout, stderr,
                   log, written>>

\* input_data = json.load(sys.stdin); tool_name = input_data.get(...)
LoadInput ==
    /\ pc = "load"
    /\ CASE stdin.kind = "invalid" ->
              LET r == invalid_json(JSONDecodeErrorText)
              IN  Terminate(Emit(r.status, "stderr", r.err, streams, unbuffered))
         [] stdin.kind = "closed" ->
              Terminate(Uncaught("AttributeError: 'NoneType' object has no attribute 'read'",
                                 streams, unbuffered))
         [] stdin.kind = "list" ->
              Terminate(Uncaught("AttributeError: 'list' object has no attribute 'get'",
                                 streams, unbuffered))
         [] OTHER ->
              /\ pc' = "tool"
              /\ UNCHANGED <<exitCode, stdout, stderr>>
    /\ UNCHANGED <<stdin, logWritable, streams, unbuffered, file_lines,
                   file_bytes, probed, log, written>>

\* if tool_name != "Read": sys.exit(0); file_path = tool_input.get(...)
CheckTool ==
    /\ pc = "tool"
    /\ IF not_read_tool(stdin.tool_name)
       THEN Terminate(Silent(0))
       ELSE IF tool_input_get_raises(stdin.tool_input)
       THEN Terminate(Uncaught("AttributeError: 'NoneType' object has no attribute 'get'", streams, unbuffered))
       ELSE /\ pc' = "ext"
            /\ UNCHANGED <<exitCode, stdout, stderr>>
    /\ UNCHANGED <<stdin, logWritable, streams, unbuffered, file_lines,
                   file_bytes, probed, log, written>>

\* ext = os.path.splitext(file_path)[1].lower()
\* if ext in SKIP_EXTENSIONS: sys.exit(0)
SkipBinary ==
    /\ pc = "ext"
    /\ IF splitext_raises(stdin.file_path)
       THEN Terminate(Uncaught("TypeError: expected str, bytes or os.PathLike object, not int", streams, unbuffered))
       ELSE IF is_skipped(StrOf(stdin.file_path))
       THEN Terminate(Silent(0))
       ELSE /\ pc' = "exists"
            /\ UNCHANGED <<exitCode, stdout, stderr>>
    /\ UNCHANGED <<stdin, logWritable, streams, unbuffered, file_lines,
                   file_bytes, probed, log, written>>

\* if not os.path.exists(file_path): sys.exit(0)
CheckExists ==
    /\ pc = "exists"
    /\ IF ~path_exists(StrOf(stdin.file_path))
       THEN Terminate(Silent(0))
       ELSE /\ pc' = "probe"
            /\ UNCHANGED <<exitCode, stdout, stderr>>
    /\ UNCHANGED <<stdin, logWritable, streams, unbuffered, file_lines,
                   file_bytes, probed, log, written>>

\* file_lines = ...; file_bytes = ...; if either is None: sys.exit(0)
ProbeMetrics ==
    /\ pc = "probe"
    /\ file_lines' = get_file_line_count(StrOf(stdin.file_path))
    /\ file_bytes' = get_file_size(StrOf(stdin.file_path))
    /\ probed' = TRUE
    /\ IF probe_failed(file_lines', file_bytes')
       THEN Terminate(Silent(0))
       ELSE /\ pc' = "rule1"
            /\ UNCHANGED <<exitCode, stdout, stderr>>
    /\ UNCHANGED <<stdin, logWritable, streams, unbuffered, log, written>>

\* Rule 1: a file over either threshold must be read with offset and limit.
\* The step ends after log_stats returned.
Rule1 ==
    /\ pc = "rule1"
    /\ IF /\ exceeds_lines(Val(file_lines)) \/ exceeds_bytes(Val(file_bytes))
          /\ missing_paging(stdin.offset, stdin.limit)
       THEN Proceed(Rule1Log(logWritable))
       ELSE /\ pc' = "rule2"
            /\ UNCHANGED <<exitCode, stdout, stderr, log, written>>
    /\ UNCHANGED <<stdin, logWritable, streams, unbuffered, file_lines,
                   file_bytes, probed>>

\* print(error_msg, file=sys.stderr); sys.exit(2) of rule 1.
EmitRule1 ==
    /\ pc = "emit1"
    /\ Terminate(Emit(2, "stderr",
                      rule1_error_msg(StrOf(stdin.file_path),
                                      rule1_reason(Val(file_lines), Val(file_bytes))),
                      streams, unbuffered))
    /\ UNCHANGED <<stdin, logWritable, streams, unbuffered, file_lines,
                   file_bytes, probed, log, written>>

\* Rule 2: the requested limit may not exceed MAX_SINGLE_READ_LINES.
\* The step ends after log_stats returned, or with the TypeError of the
\* comparison.
Rule2 ==
    /\ pc = "rule2"
    /\ IF limit_compare_raises(stdin.limit)
       THEN /\ Terminate(Uncaught("TypeError: '>' not supported between instances of 'str' and 'int'", streams, unbuffered))
            /\ UNCHANGED <<log, written>>
       ELSE IF limit_too_large(stdin.limit)
       THEN Proceed(Rule2Log(logWritable))
       ELSE /\ pc' = "rule3"
            /\ UNCHANGED <<exitCode, stdout, stderr, log, written>>
    /\ UNCHANGED <<stdin, logWritable, streams, unbuffered, file_lines,
                   file_bytes, probed>>

\* print(error_msg, file=sys.stderr); sys.exit(2) of rule 2.
EmitRule2 ==
    /\ pc = "emit2"
    /\ Terminate(Emit(2, "stderr", rule2_error_msg(Val(stdin.limit)),
                      streams, unbuffered))
    /\ UNCHANGED <<stdin, logWritable, streams, unbuffered, file_lines,
                   file_bytes, probed, log, written>>

\* Rule 3: an offset without a limit gets limit = MAX_SINGLE_READ_LINES.
\* The step ends after log_stats returned.
Rule3 ==
    /\ pc = "rule3"
    /\ IF needs_auto_limit(stdin.offset, stdin.limit)
       THEN Proceed(Rule3Log(logWritable))
       ELSE /\ pc' = "passed"
            /\ UNCHANGED <<exitCode, stdout, stderr, log, written>>
    /\ UNCHANGED <<stdin, logWritable, streams, unbuffered, file_lines,
                   file_bytes, probed>>

\* print(json.dumps(output)); sys.exit(0) of rule 3.
EmitRule3 ==
    /\ pc = "emit3"
    /\ Terminate(Emit(0, "stdout",
                      json_dumps(rule3_output(Val(file_lines), Val(file_bytes))),
                      streams, unbuffered))
    /\ UNCHANGED <<stdin, logWritable, streams, unbuffered, file_lines,
                   file_bytes, probed, log, written>>

\* log_stats(..., False, "passed")
AllPassed ==
    /\ pc = "passed"
    /\ Proceed(PassedLog(logWritable))
    /\ UNCHANGED <<stdin, logWritable, streams, unbuffered, file_lines,
                   file_bytes, probed>>

\* sys.exit(0) at the end of main().
ExitPassed ==
    /\ pc = "exit_passed"
    /\ Terminate(Silent(0))
    /\ UNCHANGED <<stdin, logWritable, streams, unbuffered, file_lines,
                   file_bytes, probed, log, written>>

\* The line another run of the hook writes (a read of app/small.py that
\* passed all checks).
OtherRunEntry ==
    log_entry(Timestamp, "app/small.py", 50, 2048, FALSE, "passed")

\* Another run of the hook, a process of its own, appends its entry to the
\* shared LOG_FILE; it can do so at any point of this run.
OtherRunAppends ==
    /\ Len(log) - Len(written) < MaxOtherLines
    /\ log' = LogAppend(log, OtherRunEntry)
    /\ UNCHANGED <<pc, stdin, logWritable, streams, unbuffered, file_lines,
                   file_bytes, probed, exitCode, stdout, stderr, written>>

Init ==
    /\ pc = "idle"
    /\ stdin = InvalidPayload
    /\ logWritable = TRUE
    /\ streams = [out |-> "ok", err |-> "ok"]
    /\ unbuffered = FALSE
    /\ file_lines = None
    /\ file_bytes = None
    /\ probed = FALSE
    /\ exitCode = None
    /\ stdout = <<>>
    /\ stderr = <<>>
    /\ log = <<>>
    /\ written = <<>>

Next ==
    \/ Invoke
    \/ LoadInput
    \/ CheckTool
    \/ SkipBinary
    \/ CheckExists
    \/ ProbeMetrics
    \/ Rule1
    \/ EmitRule1
    \/ Rule2
    \/ EmitRule2
    \/ Rule3
    \/ EmitRule3
    \/ AllPassed
    \/ ExitPassed
    \/ OtherRunAppends

Spec == Init /\ [][Next]_vars

---------------------------------------------------------------------------
(* Vocabulary of the properties, stated on the request and on what the     *)
(* filesystem holds, not on main()'s own tests.                            *)

Exited == pc = "exited"
ExitedWith(status) == Exited /\ exitCode = Some(status)

\* The payload parsed to a JSON object.
IsRequest == stdin.kind = "object"

\* The object names a file: tool_input is an object and file_path a string.
NamesFile == IsRequest /\ stdin.tool_input = "dict" /\ IsStr(stdin.file_path)

\* A request for the guarded tool that names a file.
IsReadRequest == NamesFile /\ stdin.tool_name = "Read"

ReqPath == StrOf(stdin.file_path)
ReqFile == Files[ReqPath]

OffsetGiven == ~IsNone(stdin.offset)
LimitGiven == ~IsNone(stdin.limit)
LimitOverCeiling == IsInt(stdin.limit) /\ Val(stdin.limit) > MAX_SINGLE_READ_LINES
LimitWithinCeiling == IsInt(stdin.limit) /\ Val(stdin.limit) <= MAX_SINGLE_READ_LINES

\* The extension of the requested path, lowered, is on the skip-list.
SkipListed == lower(splitext_ext(ReqPath)) \in SKIP_EXTENSIONS

\* A Read request that gets past the three bypass checks.
ReachesProbe == IsReadRequest /\ ~SkipListed /\ ReqFile.exists

MetricsKnown == ~IsNone(ReqFile.lines) /\ ~IsNone(ReqFile.bytes)

\* A Read request on an existing, non-skipped file whose probes answered.
ReachesPolicy == ReachesProbe /\ MetricsKnown

LinesExceeded == Val(ReqFile.lines) > MAX_FILE_LINES
BytesExceeded == Val(ReqFile.bytes) > MAX_FILE_BYTES
Oversized == LinesExceeded \/ BytesExceeded

\* The three decisions as the caller observes them.
DecisionAllow == ExitedWith(0) /\ stdout = <<>> /\ stderr = <<>>
DecisionAmended ==
    /\ ExitedWith(0)
    /\ stderr = <<>>
    /\ Len(stdout) = 1
    /\ Contains(stdout[1], "{\"hookSpecificOutput\": {")
    /\ Contains(stdout[1], "\"permissionDecision\": \"allow\"")
DecisionBlock == ExitedWith(2) /\ stdout = <<>> /\ Len(stderr) = 1

PagingDiagnostic(msg) == Contains(msg, "BLOCKED: File exceeds thresholds: ")
CeilingDiagnostic(msg) == Contains(msg, "BLOCKED: Requested limit=")

\* The text is the JSON payload of the auto-completion.
IsPayload(text) == Contains(text, "\"hookSpecificOutput\"")

\* Both standard streams are open and writable.
StreamsWork == streams = [out |-> "ok", err |-> "ok"]

---------------------------------------------------------------------------
(* Properties.                                                             *)

\* C1 (mandatory paging): a Read request on an existing, probed file over
\* the line threshold or over the byte threshold that lacks offset or lacks
\* limit is blocked with status 2, and the diagnostic names the line count
\* "(>1000)" exactly when the line threshold is exceeded, the byte size
\* "(>50.0KB)" exactly when the byte threshold is exceeded, and joins the
\* two with " AND " exactly when both are.
C1_MandatoryPaging ==
    (Exited /\ ReachesPolicy /\ Oversized /\ (~OffsetGiven \/ ~LimitGiven)) =>
        /\ DecisionBlock
        /\ LET msg == stderr[1]
               linePart == ToString(Val(ReqFile.lines)) \o " lines (>1000)"
               bytePart == format_bytes(Val(ReqFile.bytes)) \o " (>50.0KB)"
           IN  /\ PagingDiagnostic(msg)
               /\ Contains(msg, " lines (>") <=> LinesExceeded
               /\ LinesExceeded => Contains(msg, linePart)
               /\ Contains(msg, " (>50.0KB)") <=> BytesExceeded
               /\ BytesExceeded => Contains(msg, bytePart)
               /\ Contains(msg, " AND ") <=> (LinesExceeded /\ BytesExceeded)
               /\ (LinesExceeded /\ BytesExceeded) =>
                      Contains(msg, linePart \o " AND " \o bytePart \o ".")

\* C2 (request-size ceiling): a Read request with an integer limit over 500
\* that the policy rules receive (an existing file with a non-skipped
\* extension whose line count and byte size the probe obtained) is blocked,
\* whatever the file's line count and byte size and whether or not an
\* offset is supplied: status 2, no stdout payload, one diagnostic on
\* stderr.
C2_RequestCeiling ==
    (Exited /\ ReachesPolicy /\ LimitOverCeiling) => DecisionBlock

\* C3 (auto-completion): a Read request with an offset (0 included) and no
\* limit, on a probed file over neither file threshold, exits 0 with one
\* stdout payload whose permissionDecision is allow and whose
\* updatedInput.limit is 500; and no other run prints a stdout payload.
C3_AutoCompletion ==
    /\ (Exited /\ ReachesPolicy /\ ~Oversized /\ OffsetGiven /\ ~LimitGiven) =>
           /\ DecisionAmended
           /\ Contains(stdout[1], "\"updatedInput\": {\"limit\": 500}}}")
    /\ (Exited /\ \E i \in 1..Len(stdout) : IsPayload(stdout[i])) =>
           /\ ReachesPolicy /\ ~Oversized /\ OffsetGiven /\ ~LimitGiven

\* C4 (block only from rules 1-2): a run is blocked only if the file is
\* over a file threshold and offset or limit is missing, or the limit is
\* over 500.  So a request on a file of at most 1000 lines and at most 51200
\* bytes with no limit over 500 is allowed (plainly or amended), and a
\* request with both an offset and a limit of at most 500 is plainly
\* allowed whatever the file size.
C4_BlockOnlyFromRules ==
    /\ ExitedWith(2) =>
           /\ ReachesPolicy
           /\ (Oversized /\ (~OffsetGiven \/ ~LimitGiven)) \/ LimitOverCeiling
    /\ (Exited /\ ReachesPolicy /\ ~Oversized
        /\ (~LimitGiven \/ LimitWithinCeiling)) =>
           DecisionAllow \/ DecisionAmended
    /\ (Exited /\ IsRequest /\ OffsetGiven /\ LimitWithinCeiling) =>
           DecisionAllow

\* C5 (fail-open): when the line-count probe or the size probe of an
\* existing, non-skipped file answers None, the run exits 0 with nothing on
\* stdout and nothing on stderr, whatever offset and limit are.
C5_FailOpen ==
    (Exited /\ ReachesProbe /\ ~MetricsKnown) => DecisionAllow

\* C5 witness: the unreadable file, whose size (61440) is over the byte
\* threshold, requested without offset and with limit 600, was probed and
\* allowed.
C5_Witness ==
    /\ DecisionAllow
    /\ IsReadRequest
    /\ stdin.file_path = PyStr("app/locked.txt")
    /\ ~OffsetGiven
    /\ stdin.limit = Some(600)
    /\ probed
    /\ IsNone(file_lines)

\* C6 (malformed input): a payload that is not valid JSON ends the run with
\* status 1, before any probe, with no stdout payload and no log line of
\* its own; status 1 is never the outcome of a request that was parsed to
\* an object, and status 2 is only ever a policy block (rule 1 or rule 2
\* applies to a probed file).
C6_MalformedInput ==
    /\ (Exited /\ stdin.kind = "invalid") =>
           /\ ExitedWith(1)
           /\ ~probed
           /\ \A i \in 1..Len(stdout) : ~IsPayload(stdout[i])
           /\ written = <<>>
    /\ ExitedWith(1) => ~IsRequest
    /\ ExitedWith(2) =>
           /\ ReachesPolicy
           /\ (Oversized /\ (~OffsetGiven \/ ~LimitGiven)) \/ LimitOverCeiling

\* C7 (fast bypass): a request for another tool, or for a path whose lowered
\* extension is on the skip-list, or for a file that does not exist, ends
\* with status 0, nothing on stdout or stderr and no probe, whatever offset
\* and limit are; the run ends at the tool check in the first case, at the
\* extension check in the second (tool is Read) and at the existence check
\* in the third (tool is Read, extension not skipped), none of them a
\* policy rule, and it writes no audit line.
C7_FastBypass ==
    [][(pc' = "exited" /\ pc # "exited"
        /\ \/ IsRequest /\ stdin.tool_name # "Read"
           \/ IsReadRequest /\ (SkipListed \/ ~ReqFile.exists)) =>
           /\ exitCode' = Some(0)
           /\ stdout' = <<>>
           /\ stderr' = <<>>
           /\ ~probed'
           /\ written' = <<>>
           /\ pc = (IF stdin.tool_name # "Read" THEN "tool"
                    ELSE IF SkipListed THEN "ext"
                    ELSE "exists")]_vars

\* C7 witness: a Read of the upper-case .PNG path with limit 600 was allowed
\* without a probe.
C7_Witness ==
    /\ DecisionAllow
    /\ IsReadRequest
    /\ stdin.file_path = PyStr("img/logo.PNG")
    /\ stdin.limit = Some(600)
    /\ ~probed

\* main() stands at a call of log_stats.
AtLogCall ==
    \/ /\ pc = "rule1"
       /\ exceeds_lines(Val(file_lines)) \/ exceeds_bytes(Val(file_bytes))
       /\ missing_paging(stdin.offset, stdin.limit)
    \/ pc = "rule2" /\ limit_too_large(stdin.limit)
    \/ pc = "rule3" /\ needs_auto_limit(stdin.offset, stdin.limit)
    \/ pc = "passed"

\* Where main() is after that call, had the log been writable or not.
LoggingStepResult(writable) ==
    CASE pc = "rule1" -> Rule1Log(writable)
      [] pc = "rule2" -> Rule2Log(writable)
      [] pc = "rule3" -> Rule3Log(writable)
      [] OTHER        -> PassedLog(writable)

\* C8 (logging is observational): whenever main() calls log_stats, it is
\* afterwards at the same statement, with the same exit status, stdout and
\* stderr, as when the log append goes the other way (succeeds instead of
\* failing, fails instead of succeeding), and the process has not ended;
\* and the statements that follow (print, sys.exit) read neither the log
\* nor whether it could be written, so a run whose streams are open and
\* writable ends with 0 or 2 in both cases.
C8_LoggingObservational ==
    [][/\ (AtLogCall /\ pc' # pc) =>
              LET other == LoggingStepResult(~logWritable)
              IN  /\ pc' = other.pc
                  /\ pc' \in {"emit1", "emit2", "emit3", "exit_passed"}
                  /\ exitCode' = other.exitCode
                  /\ stdout' = other.stdout
                  /\ stderr' = other.stderr
       /\ (pc \in {"emit1", "emit2", "emit3", "exit_passed"} /\ pc' # pc) =>
              /\ pc' = "exited"
              /\ StreamsWork =>
                     exitCode' = Some(IF pc \in {"emit1", "emit2"} THEN 2 ELSE 0)]_vars

\* C8 witness: a run whose log append failed was blocked all the same, and
\* wrote nothing to the log.
C8_Witness ==
    /\ DecisionBlock
    /\ ~logWritable
    /\ ReachesPolicy
    /\ written = <<>>

\* C9 as stated: every run that reaches a decision (status 0 or 2) with a
\* writable log has appended exactly one line.
C9_Original ==
    (Exited /\ exitCode \in {Some(0), Some(2)} /\ logWritable) =>
        Len(written) = 1

\* The run calls log_stats: it reaches the policy rules and the comparison
\* of rule 2 does not raise first.
CallsLogStats ==
    /\ ReachesPolicy
    /\ IsStr(stdin.limit) => (Oversized /\ ~OffsetGiven)

\* C9 (one audit entry, amended): the log only ever grows by appending,
\* also while other runs append to it; a run that reaches the outcome of a
\* policy rule (a Read request on an existing, non-skipped file whose
\* metrics were obtained) writes, when the log is writable, exactly one
\* entry of its own, in one piece and before the process exits; the entry
\* is one line, plus one line for every newline in file_path; every other
\* run (malformed or ill-typed input, other tool, skipped extension,
\* missing file, failed probe, unwritable log) writes none.
C9_OneEntryPerPolicyRun ==
    [][/\ Len(log') >= Len(log)
       /\ SubSeq(log', 1, Len(log)) = log
       /\ written' # written =>
              /\ written = <<>>
              /\ pc # "exited" /\ pc' # "exited"
              /\ log' = log \o written'
       /\ pc' = "exited" =>
              /\ Len(written') =
                     (IF CallsLogStats /\ logWritable
                      THEN 1 + Count(ReqPath, "\n") ELSE 0)
              /\ \E i \in 0..(Len(log') - Len(written')) :
                     SubSeq(log', i + 1, i + Len(written')) = written']_vars

\* C9 witness: a run on the path that holds a newline has exited; its
\* entry is two lines of the log, between a line another run wrote before
\* and one written after.
C9_Witness ==
    /\ Exited
    /\ ReachesPolicy
    /\ logWritable
    /\ Len(written) = 2
    /\ Len(log) = 4
    /\ SubSeq(log, 2, 3) = written
    /\ written[2] = "lines.txt"

\* C10 (rule precedence): an oversized file requested with limit > 500 and
\* no offset is blocked with the paging diagnostic and log reason, not the
\* limit-too-large one; the limit-too-large diagnostic on an oversized file
\* appears only when both offset and limit are supplied; a limit over 500
\* never yields the amended or the plain allow on a probed file; and a run
\* yields one decision and one diagnostic: a stdout payload or a stderr
\* diagnostic on every run that a rule answers with one, never both.
C10_RulePrecedence ==
    /\ (Exited /\ ReachesPolicy /\ Oversized /\ LimitOverCeiling /\ ~OffsetGiven) =>
           /\ DecisionBlock
           /\ PagingDiagnostic(stderr[1])
           /\ ~CeilingDiagnostic(stderr[1])
           /\ logWritable =>
                  /\ Len(written) = 1 + Count(ReqPath, "\n")
                  /\ Contains(written[1], "| missing offset/limit: ")
    /\ (Exited /\ ReachesPolicy /\ Oversized /\ Len(stderr) > 0
        /\ CeilingDiagnostic(stderr[1])) =>
           /\ OffsetGiven /\ LimitGiven
           /\ ~PagingDiagnostic(stderr[1])
    /\ (Exited /\ ReachesPolicy /\ LimitOverCeiling) => stdout = <<>>
    /\ Exited =>
           /\ Len(stdout) + Len(stderr) <= 1
           /\ ExitedWith(2) => Len(stderr) = 1

=============================================================================
